---- MODULE Spec2Model ----
(***************************************************************************)
(* Model of src/main.py: the product and order handlers of the e-commerce  *)
(* backend (create_product, list_products, create_order, list_orders) over *)
(* the two document collections db.products and db.orders.                 *)
(*                                                                         *)
(* Strings are sequences of one-character strings.  A collection is the    *)
(* sequence of its documents in insertion order; every document carries    *)
(* the ObjectId (a natural number) the driver gave it under "_id".         *)
(* Prices are counted in quarters of a currency unit (PriceUnit), which    *)
(* binary floats represent exactly, so the float sum of the code is the    *)
(* integer sum of the model.                                               *)
(***************************************************************************)
EXTENDS Naturals, Sequences, FiniteSets, Bags, TLC

VARIABLES products, orders, creator, reqs

vars == <<products, orders, creator, reqs>>

-----------------------------------------------------------------------------
(* Bounds of the model *)

\* documents db.products may hold
MaxProducts == 2
\* create_order requests accepted for processing (in flight or persisted)
MaxOrders == 2

-----------------------------------------------------------------------------
(* Strings and Python's None *)

None == <<"None">>

LowerChar(c) ==
  CASE c = "A" -> "a"
    [] c = "B" -> "b"
    [] c = "C" -> "c"
    [] c = "D" -> "d"
    [] c = "E" -> "e"
    [] c = "F" -> "f"
    [] c = "G" -> "g"
    [] c = "L" -> "l"
    [] OTHER -> c

\* str.lower()
lower(s) == [i \in DOMAIN s |-> LowerChar(s[i])]

\* Python truthiness of an Optional[str]: None and "" are false
Truthy(s) == s # None /\ s # <<>>

Min(a, b) == IF a <= b THEN a ELSE b

\* whether sub occurs in s as a contiguous substring
Contains(s, sub) ==
  \E i \in 0..Len(s) :
    /\ i + Len(sub) <= Len(s)
    /\ \A j \in 1..Len(sub) : s[i + j] = sub[j]

-----------------------------------------------------------------------------
(* bson.ObjectId: 12 bytes, written as 24 hexadecimal characters *)

OidHexLen == 24

HexDigits == <<"0", "1", "2", "3", "4", "5", "6", "7", "8", "9",
               "a", "b", "c", "d", "e", "f">>

HexChars == {HexDigits[i] : i \in DOMAIN HexDigits} \cup {"A", "B", "C", "D", "E", "F"}

\* the value of each hexadecimal character, capitals as their small letters
HexValues == [c \in HexChars |-> CHOOSE v \in 0..15 : HexDigits[v + 1] = LowerChar(c)]

HexVal(c) == HexValues[c]

\* ObjectId(s) raises InvalidId unless s is 24 hexadecimal characters
ObjectIdValid(s) == Len(s) = OidHexLen /\ \A i \in DOMAIN s : s[i] \in HexChars

RECURSIVE HexParse(_, _)
HexParse(s, n) == IF n = 0 THEN 0 ELSE HexParse(s, n - 1) * 16 + HexVal(s[n])

\* ObjectId(s) for a valid s: the identifier the characters denote
ObjectId(s) == HexParse(s, Len(s))

\* the leading characters of the identifiers written here (all below 256)
ZeroPrefix == [i \in 1..(OidHexLen - 2) |-> "0"]

\* str(oid): 24 lowercase hexadecimal characters
OidStr(n) == ZeroPrefix \o <<HexDigits[((n \div 16) % 16) + 1], HexDigits[(n % 16) + 1]>>

UpperChar(c) ==
  CASE c = "a" -> "A" [] c = "b" -> "B" [] c = "c" -> "C"
    [] c = "d" -> "D" [] c = "e" -> "E" [] c = "f" -> "F" [] OTHER -> c

\* the same identifier spelled with capital hexadecimal letters
OidStrUpper(n) == [i \in 1..OidHexLen |-> UpperChar(OidStr(n)[i])]

\* The identifiers the driver generates grow within the process; the first
\* one of each collection is FirstOid.
FirstOid == 10

\* an identifier that does not advance with the collection
NewObjectId_stale(coll) == FirstOid

\* ObjectId(): greater than every identifier generated before it
NewObjectId(coll) == FirstOid + Len(coll)

-----------------------------------------------------------------------------
(* The document store: find / sort / skip / limit / to_list / insert_one *)

\* collection.find(query) is SelectSeq(coll, Match): the documents of coll that
\* satisfy the query, in natural (insertion) order.

\* cursor.sort("_id", 1): ascending by identifier (selection of the least)
RECURSIVE sort(_)
sort(docs) ==
  IF docs = <<>> THEN <<>>
  ELSE LET i == CHOOSE k \in DOMAIN docs : \A j \in DOMAIN docs : docs[k]._id <= docs[j]._id
       IN <<docs[i]>> \o sort(SubSeq(docs, 1, i - 1) \o SubSeq(docs, i + 1, Len(docs)))

\* the offset left out of the cursor
skip_none(docs, offset) == docs

skip(docs, offset) == SubSeq(docs, offset + 1, Len(docs))

limit(docs, n) == SubSeq(docs, 1, Min(n, Len(docs)))

\* cursor.to_list(length): at most length documents
to_list(docs, length) == SubSeq(docs, 1, Min(length, Len(docs)))

\* a write that replaces the newest document instead of adding one
insert_one_replacing(coll, doc, id) ==
  IF coll = <<>> THEN <<("_id" :> id) @@ doc>>
  ELSE [coll EXCEPT ![Len(coll)] = ("_id" :> id) @@ doc]

\* collection.insert_one(doc): the driver adds a fresh "_id"
insert_one(coll, doc, id) == Append(coll, ("_id" :> id) @@ doc)

-----------------------------------------------------------------------------
(* Data models *)

\* ProductIn field constraints: name min_length=1, price gt=0
ProductInValid(p) == Len(p.name) >= 1 /\ p.price > 0

\* ProductIn.to_lowercase
product_to_lowercase(p) ==
  [name |-> lower(p.name),
   description |-> IF Truthy(p.description) THEN lower(p.description) ELSE None,
   price |-> p.price,
   size |-> IF Truthy(p.size) THEN lower(p.size) ELSE None]

\* OrderItem / OrderIn field constraints: quantity gt=0, user_id min_length=1
OrderInValid(o) == Len(o.user_id) >= 1 /\ \A i \in DOMAIN o.items : o.items[i].quantity > 0

\* OrderIn.to_lowercase
to_lowercase(o) ==
  [user_id |-> lower(o.user_id),
   items |-> [i \in DOMAIN o.items |->
                [product_id |-> lower(o.items[i].product_id), quantity |-> o.items[i].quantity]]]

\* Query(10, ge=1, le=100) and Query(0, ge=0)
LimitMax == 100

PagingValid(lim, offset) == lim >= 1 /\ lim <= LimitMax /\ offset >= 0

-----------------------------------------------------------------------------
(* Responses *)

Response(op, status, body) == [op |-> op, status |-> status, body |-> body]

NotFoundDetail == "One or more products not found"

\* the body of FastAPI's answer to a request the data models refuse
ValidationDetail == "validation error"

\* ObjectId(...) raised bson.errors.InvalidId, which nothing catches
InvalidIdDetail == "Internal Server Error"

\* a stored document as it is returned: "_id" rendered as a string
Rendered(doc) == [doc EXCEPT !._id = OidStr(doc._id)]

-----------------------------------------------------------------------------
(* create_order, lines 141-144: normalise, parse the identifiers, look up *)

product_ids_of(order) == [i \in DOMAIN order.items |-> order.items[i].product_id]

AllIdsValid(order) == \A i \in DOMAIN order.items : ObjectIdValid(order.items[i].product_id)

\* db.products.find({"_id": {"$in": product_ids}}).to_list(length=len(product_ids))
LookupProducts(coll, order) ==
  LET ids == {ObjectId(product_ids_of(order)[i]) : i \in DOMAIN order.items}
      InIds(p) == p._id \in ids
  IN to_list(SelectSeq(coll, InIds), Len(order.items))

(* create_order, lines 145-155: validate, price, insert *)

\* price_map = {str(p["_id"]): p["price"] for p in products}
price_map(found) ==
  [k \in {OidStr(found[i]._id) : i \in DOMAIN found} |->
     (CHOOSE i \in DOMAIN found : OidStr(found[i]._id) = k) ]

PriceOf(found, k) == found[price_map(found)[k]].price

\* if len(price_map) != len(product_ids)
NotFound(found, order) == Cardinality(DOMAIN price_map(found)) # Len(order.items)

\* sum(price_map[item.product_id] * item.quantity for item in order.items)
RECURSIVE SumItems(_, _, _)
SumItems(found, items, n) ==
  IF n = 0 THEN 0
  ELSE SumItems(found, items, n - 1) + PriceOf(found, items[n].product_id) * items[n].quantity

total_of(found, order) == SumItems(found, order.items, Len(order.items))

\* doc = order.dict(); doc["items"] = [...]; doc["total"] = total
order_doc(found, order) ==
  [user_id |-> order.user_id, items |-> order.items, total |-> total_of(found, order)]

\* the not-found check left out, a missing price counted as 0
RECURSIVE SumKnownItems(_, _, _)
SumKnownItems(found, items, n) ==
  IF n = 0 THEN 0
  ELSE SumKnownItems(found, items, n - 1)
         + (IF items[n].product_id \in DOMAIN price_map(found)
              THEN PriceOf(found, items[n].product_id) * items[n].quantity
              ELSE 0)

Finish_unchecked(found, order, coll) ==
  LET doc == [user_id |-> order.user_id, items |-> order.items,
              total |-> SumKnownItems(found, order.items, Len(order.items))]
      stored == insert_one(coll, doc, NewObjectId(coll))
  IN [resp |-> Response("create_order", 201, Rendered(stored[Len(stored)])), orders |-> stored]

\* The second half of create_order on the lookup's result: the response and
\* the orders collection it leaves.
Finish(found, order, coll) ==
  IF NotFound(found, order)
    THEN [resp |-> Response("create_order", 400, NotFoundDetail), orders |-> coll]
    ELSE LET stored == insert_one(coll, order_doc(found, order), NewObjectId(coll))
         IN [resp |-> Response("create_order", 201, Rendered(stored[Len(stored)])),
             orders |-> stored]

\* create_order run from its first line to its last on one state of the
\* stores: the response and the orders collection it leaves.
create_order(req, prods, coll) ==
  IF ~OrderInValid(req)
    THEN [resp |-> Response("create_order", 422, ValidationDetail), orders |-> coll]
  ELSE IF ~AllIdsValid(to_lowercase(req))
    THEN [resp |-> Response("create_order", 500, InvalidIdDetail), orders |-> coll]
  ELSE Finish(LookupProducts(prods, to_lowercase(req)), to_lowercase(req), coll)

-----------------------------------------------------------------------------
(* list_products and list_orders *)

\* the query of list_products: "$regex" with option "i" on name (the names
\* asked for here hold letters only, so the pattern is a substring), and
\* equality with the lowercased size
ProductMatches(p, name, size) ==
  /\ Truthy(name) => Contains(lower(p.name), lower(name))
  /\ Truthy(size) => p.size = lower(size)

RECURSIVE RenderAll(_)
RenderAll(docs) ==
  IF docs = <<>> THEN <<>> ELSE <<Rendered(Head(docs))>> \o RenderAll(Tail(docs))

list_products(coll, name, size, lim, offset) ==
  LET Match(p) == ProductMatches(p, name, size)
  IN RenderAll(to_list(limit(skip(sort(SelectSeq(coll, Match)), offset), lim), lim))

\* the path parameter matched as sent
list_orders_as_sent(coll, user_id, lim, offset) ==
  LET Match(o) == o.user_id = user_id
  IN RenderAll(to_list(limit(skip(sort(SelectSeq(coll, Match)), offset), lim), lim))

list_orders(coll, user_id, lim, offset) ==
  LET Match(o) == o.user_id = lower(user_id)
  IN RenderAll(to_list(limit(skip(sort(SelectSeq(coll, Match)), offset), lim), lim))

-----------------------------------------------------------------------------
(* Requests *)

UserInputs == {<<"A">>, <<"a">>, <<"b">>, <<>>}

Quantities == {0, 1, 2}

\* 24 characters, the last of which is no hexadecimal digit
NonHexId == [i \in 1..OidHexLen |-> IF i = OidHexLen THEN "g" ELSE "0"]

\* the identifier no product ever gets
UnknownOid == FirstOid + MaxProducts

\* product ids a request may name: the identifiers db.products can hold and
\* the next one, the first also in capitals, and two that ObjectId refuses
PidInputs ==
  {OidStr(n) : n \in FirstOid..UnknownOid} \cup {OidStrUpper(FirstOid), NonHexId, <<"a">>}

ItemInputs == [product_id : PidInputs, quantity : Quantities]

ItemLists == UNION {[1..n -> ItemInputs] : n \in 0..2}

\* every request the claims about create_order range over
OrderInputs == [user_id : UserInputs, items : ItemLists]

Item(pid, q) == [product_id |-> pid, quantity |-> q]

\* the requests that arrive in the behaviours explored
OrderArrivals ==
  { [user_id |-> <<"A">>, items |-> <<Item(OidStrUpper(FirstOid), 2), Item(OidStr(FirstOid + 1), 1)>>],
    [user_id |-> <<"a">>, items |-> <<Item(OidStr(FirstOid), 1), Item(OidStr(FirstOid), 1)>>],
    [user_id |-> <<"b">>, items |-> <<>>],
    [user_id |-> <<"b">>, items |-> <<Item(OidStr(FirstOid), 1), Item(OidStr(UnknownOid), 1)>>],
    [user_id |-> <<"A">>, items |-> <<Item(OidStr(FirstOid), 1), Item(NonHexId, 1)>>],
    [user_id |-> <<"a">>, items |-> <<Item(OidStr(FirstOid + 1), 2)>>],
    [user_id |-> <<>>, items |-> <<Item(OidStr(FirstOid), 1)>>] }

ProductInputs ==
  { [name |-> <<"A", "b">>, description |-> None, price |-> 40, size |-> <<"L">>],
    [name |-> <<"b">>, description |-> <<"D">>, price |-> 10, size |-> None],
    [name |-> <<"B">>, description |-> None, price |-> 0, size |-> <<"l">>] }

NameInputs == {None, <<"B">>}

SizeInputs == {None, <<"L">>}

LimitInputs == {1, 2}

OffsetInputs == {0, 1, 2}

-----------------------------------------------------------------------------
(* The handlers.  creator, and the fields req and seen of a request in       *)
(* flight, are history: the user_id each order was sent with, the request   *)
(* as sent, and the size of db.products at its lookup.                      *)

Init ==
  /\ products = <<>>
  /\ orders = <<>>
  /\ creator = <<>>
  /\ reqs = EmptyBag

\* create_product: a body ProductIn refuses never reaches the handler
CreateProduct(p) ==
  /\ Len(products) < MaxProducts
  /\ ProductInValid(p)
  /\ products' = insert_one(products, product_to_lowercase(p), NewObjectId(products))
  /\ UNCHANGED <<orders, creator, reqs>>

\* list_products reads db.products and writes nothing
ListProducts(name, size, lim, offset) ==
  /\ PagingValid(lim, offset)
  /\ Len(list_products(products, name, size, lim, offset)) <= lim
  /\ UNCHANGED vars

\* create_order up to the answer of the product lookup (lines 141-144); a
\* request whose ids ObjectId refuses ends here, the others wait for the
\* insert with their local variables.
CreateOrderLookup(req) ==
  /\ Len(orders) + BagCardinality(reqs) < MaxOrders
  /\ OrderInValid(req)
  /\ IF ~AllIdsValid(to_lowercase(req))
       THEN reqs' = reqs
       ELSE reqs' = reqs (+) SetToBag({[req |-> req,
                                        order |-> to_lowercase(req),
                                        products |-> LookupProducts(products, to_lowercase(req)),
                                        seen |-> Len(products)]})
  /\ UNCHANGED <<products, orders, creator>>

\* create_order from the lookup's answer to the response (lines 145-155)
CreateOrderInsert(r) ==
  /\ BagIn(r, reqs)
  /\ LET out == Finish(r.products, r.order, orders) IN
       /\ orders' = out.orders
       /\ creator' = IF out.resp.status = 201 THEN Append(creator, r.req.user_id) ELSE creator
  /\ reqs' = reqs (-) SetToBag({r})
  /\ UNCHANGED products

\* list_orders reads db.orders and writes nothing
ListOrders(user_id, lim, offset) ==
  /\ PagingValid(lim, offset)
  /\ Len(list_orders(orders, user_id, lim, offset)) <= lim
  /\ UNCHANGED vars

Next ==
  \/ \E p \in ProductInputs : CreateProduct(p)
  \/ \E name \in NameInputs, size \in SizeInputs, lim \in LimitInputs, offset \in OffsetInputs :
       ListProducts(name, size, lim, offset)
  \/ \E req \in OrderArrivals : CreateOrderLookup(req)
  \/ \E r \in BagToSet(reqs) : CreateOrderInsert(r)
  \/ \E user_id \in UserInputs \ {<<>>}, lim \in LimitInputs, offset \in OffsetInputs :
       ListOrders(user_id, lim, offset)

Spec == Init /\ [][Next]_vars

-----------------------------------------------------------------------------
(* What the claims speak of *)

Range(f) == {f[i] : i \in DOMAIN f}

\* the product a requested id refers to, identifiers compared without case
RefersTo(pid, p) == OidStr(p._id) = lower(pid)

Exists(pid, prods) == \E i \in DOMAIN prods : RefersTo(pid, prods[i])

AllExist(req, prods) == \A i \in DOMAIN req.items : Exists(req.items[i].product_id, prods)

StoredPrice(pid, prods) == prods[CHOOSE i \in DOMAIN prods : RefersTo(pid, prods[i])].price

RECURSIVE LineSum(_, _, _)
LineSum(items, prods, n) ==
  IF n = 0 THEN 0
  ELSE LineSum(items, prods, n - 1) + StoredPrice(items[n].product_id, prods) * items[n].quantity

ExpectedTotal(req, prods) == LineSum(req.items, prods, Len(req.items))

LastOf(coll) == coll[Len(coll)]

\* C1: every request ProductIn/OrderIn accept whose items all name stored
\* products is answered 201, and the total returned and the total stored are
\* the sum over the lines, as given, of stored price times quantity.
C1_TotalIsSumOfLines ==
  \A req \in OrderInputs :
    (OrderInValid(req) /\ AllExist(req, products)) =>
      LET out == create_order(req, products, orders) IN
        /\ out.resp.status = 201
        /\ out.resp.body.total = ExpectedTotal(req, products)
        /\ Len(out.orders) = Len(orders) + 1
        /\ LastOf(out.orders).total = ExpectedTotal(req, products)

\* C2: every accepted-by-validation request with an item whose product id is
\* not in the product store is answered 400 and leaves db.orders as it was.
C2_MissingProductIs400 ==
  \A req \in OrderInputs :
    (OrderInValid(req) /\ ~AllExist(req, products)) =>
      LET out == create_order(req, products, orders) IN
        /\ out.resp.status = 400
        /\ out.orders = orders

HasRepeatedProduct(req) ==
  \E i, j \in DOMAIN req.items :
    i # j /\ lower(req.items[i].product_id) = lower(req.items[j].product_id)

\* C3: a request that names one stored product on more than one line is
\* accepted; the lines stay separate and each adds its price times quantity.
C3_RepeatedProductAccepted ==
  \A req \in OrderInputs :
    (OrderInValid(req) /\ AllExist(req, products) /\ HasRepeatedProduct(req)) =>
      LET out == create_order(req, products, orders) IN
        /\ out.resp.status = 201
        /\ Len(out.resp.body.items) = Len(req.items)
        /\ out.resp.body.total = ExpectedTotal(req, products)

Unresolvable(pid, prods) == ~ObjectIdValid(lower(pid)) \/ ~Exists(pid, prods)

\* C4: every request with a product id that resolves to no product, one that
\* is no well-formed identifier included, ends the same way: status 400 with
\* the fixed message, nothing stored.
C4_UnresolvableIdIs400 ==
  \A req \in OrderInputs :
    (OrderInValid(req) /\ \E i \in DOMAIN req.items : Unresolvable(req.items[i].product_id, products)) =>
      LET out == create_order(req, products, orders) IN
        /\ out.resp.status \notin {422, 500}
        /\ out.resp.status = 400
        /\ out.resp.body = NotFoundDetail
        /\ out.orders = orders

\* C5: a request with no items is refused as a validation error and stores
\* nothing, so every stored order has at least one item.
C5_EmptyItemsRejected ==
  /\ \A req \in OrderInputs :
       (Len(req.user_id) >= 1 /\ req.items = <<>>) =>
         LET out == create_order(req, products, orders) IN
           /\ out.resp.status = 422
           /\ out.orders = orders
  /\ \A k \in DOMAIN orders : Len(orders[k].items) >= 1

-----------------------------------------------------------------------------
(* C6 *)

ItemsStored(o, prods) ==
  \A i \in DOMAIN o.items : \E k \in DOMAIN prods : OidStr(prods[k]._id) = o.items[i].product_id

\* C6: in every reachable state every product_id of every stored order names
\* a stored product, and at the step that stores an order its product_ids
\* name products stored at that moment.
C6_ItemsNameStoredProducts ==
  /\ [](\A k \in DOMAIN orders : ItemsStored(orders[k], products))
  /\ [][Len(orders') > Len(orders) => ItemsStored(LastOf(orders'), products)]_vars

\* an order of two lines is stored, both lines naming stored products
C6_Witness ==
  \E k \in DOMAIN orders : Len(orders[k].items) = 2 /\ ItemsStored(orders[k], products)

-----------------------------------------------------------------------------
(* C7 *)

\* the record create_order has to store for the request in flight r
CompleteRecord(doc, r) ==
  /\ DOMAIN doc = {"_id", "user_id", "items", "total"}
  /\ doc.user_id = lower(r.req.user_id)
  /\ Len(doc.items) = Len(r.req.items)
  /\ \A i \in DOMAIN doc.items :
       /\ doc.items[i].product_id = lower(r.req.items[i].product_id)
       /\ doc.items[i].quantity = r.req.items[i].quantity
  /\ doc.total = ExpectedTotal(r.req, products)

\* C7: no step changes or removes a stored order; a step adds at most one,
\* only as the insert of a request in flight, whose complete record it is;
\* every other step leaves db.orders as it was.
C7_OrdersAppendOnly ==
  [][/\ Len(orders') >= Len(orders)
     /\ \A k \in DOMAIN orders : orders'[k] = orders[k]
     /\ Len(orders') <= Len(orders) + 1
     /\ Len(orders') = Len(orders) + 1 =>
          \E r \in BagToSet(reqs) :
            /\ reqs' = reqs (-) SetToBag({r})
            /\ CompleteRecord(LastOf(orders'), r)
     /\ (\A r \in BagToSet(reqs) : reqs' # reqs (-) SetToBag({r})) => orders' = orders]_vars

\* two orders are stored, the second behind the first
C7_Witness == Len(orders) = 2 /\ orders[2].items # <<>>

-----------------------------------------------------------------------------
(* C8 *)

ValidUsers == UserInputs \ {<<>>}

AllOf(user_id) == Range(list_orders(orders, user_id, LimitMax, 0))

\* C8: listing under any spelling u2 returns every order sent under a
\* spelling u1 that lowercases to the same string, and only orders whose
\* sender does; every stored user_id is its own lowercase.
C8_UserIdsCaseInsensitive ==
  /\ \A u1, u2 \in ValidUsers :
       lower(u1) = lower(u2) =>
         \A k \in DOMAIN orders : creator[k] = u1 => Rendered(orders[k]) \in AllOf(u2)
  /\ \A u2 \in ValidUsers :
       \A doc \in AllOf(u2) :
         \E k \in DOMAIN orders : Rendered(orders[k]) = doc /\ lower(creator[k]) = lower(u2)
  /\ \A k \in DOMAIN orders :
       \A i \in DOMAIN orders[k].user_id : orders[k].user_id[i] \notin {"A", "B"}

\* an order sent as "A" is listed under "a", next to one sent as "a"
C8_Witness ==
  /\ \E k \in DOMAIN orders : creator[k] = <<"A">>
  /\ \E k \in DOMAIN orders : creator[k] = <<"a">>
  /\ Cardinality(AllOf(<<"a">>)) = 2
  /\ AllOf(<<"A">>) = AllOf(<<"a">>)

-----------------------------------------------------------------------------
(* C9 *)

\* res is positions offset .. min(offset+lim, N)-1 of the N documents of coll
\* that satisfy the query (those at the indices in M), by ascending
\* identifier: its i-th document is the matching one with exactly
\* offset+i-1 matching documents of smaller identifier
IsPage(res, coll, M, lim, offset) ==
  LET N == Cardinality(M) IN
    /\ Len(res) = Min(lim, IF N > offset THEN N - offset ELSE 0)
    /\ \A i \in DOMAIN res :
         \E k \in M :
           /\ res[i] = Rendered(coll[k])
           /\ Cardinality({j \in M : coll[j]._id < coll[k]._id}) = offset + i - 1

\* the positions of the first page all come before those of the second
Before(lim1, offset1, offset2) == offset1 + lim1 <= offset2

NoOverlap(res1, res2) == \A i \in DOMAIN res1, j \in DOMAIN res2 : res1[i] # res2[j]

RECURSIVE SeqOf(_)
SeqOf(S) == IF S = {} THEN <<>> ELSE LET x == CHOOSE y \in S : TRUE IN <<x>> \o SeqOf(S \ {x})

\* the pagings <<limit, offset>> asked about, in some order
Pagings == SeqOf(LimitInputs \X OffsetInputs)

\* the answers of list_products to the first n pagings of one query
RECURSIVE ProductPages(_, _, _)
ProductPages(name, size, n) ==
  IF n = 0 THEN <<>>
  ELSE ProductPages(name, size, n - 1)
         \o <<list_products(products, name, size, Pagings[n][1], Pagings[n][2])>>

\* the answers of list_orders to the first n pagings of one user
RECURSIVE OrderPages(_, _)
OrderPages(user_id, n) ==
  IF n = 0 THEN <<>>
  ELSE OrderPages(user_id, n - 1) \o <<list_orders(orders, user_id, Pagings[n][1], Pagings[n][2])>>

\* pages[n] is the right page for paging n of a query over coll whose matching
\* documents are at the indices in M, and pages of disjoint ranges share nothing
PagesRight(pages, coll, M) ==
  /\ \A n \in DOMAIN Pagings : IsPage(pages[n], coll, M, Pagings[n][1], Pagings[n][2])
  /\ \A n1, n2 \in DOMAIN Pagings :
       Before(Pagings[n1][1], Pagings[n1][2], Pagings[n2][2]) => NoOverlap(pages[n1], pages[n2])

\* C9: list_products and list_orders return exactly the page asked for of
\* the matching documents in ascending identifier order, and two pages whose
\* position ranges are disjoint share no document.
C9_PagesOfSortedMatches ==
  /\ \A name \in NameInputs, size \in SizeInputs :
       \A M \in {{k \in DOMAIN products : ProductMatches(products[k], name, size)}},
          pages \in {ProductPages(name, size, Len(Pagings))} :
         PagesRight(pages, products, M)
  /\ \A user_id \in ValidUsers :
       \A M \in {{k \in DOMAIN orders : orders[k].user_id = lower(user_id)}},
          pages \in {OrderPages(user_id, Len(Pagings))} :
         PagesRight(pages, orders, M)

\* two products and two orders of one user: the second page of size one is
\* the second document, and the page past the end is empty
C9_Witness ==
  /\ Len(products) = 2
  /\ list_products(products, None, None, 1, 1) = <<Rendered(products[2])>>
  /\ list_products(products, None, None, 2, 2) = <<>>
  /\ \E u \in ValidUsers :
       /\ Len(list_orders(orders, u, 2, 0)) = 2
       /\ list_orders(orders, u, 2, 1) = <<Rendered(orders[2])>>

-----------------------------------------------------------------------------
(* C10 *)

\* create_order run alone, from its first line to its last, on the products
\* stored when r was looked up and an empty db.orders
Alone(r) == create_order(r.req, SubSeq(products, 1, r.seen), <<>>)

SameOrder(doc, solo) ==
  /\ doc.user_id = solo.user_id
  /\ doc.items = solo.items
  /\ doc.total = solo.total

\* C10: with lookups and inserts of several requests interleaved in any
\* order, the insert of each request ends as the request run alone would:
\* rejected and nothing stored, or accepted and its order, with the same
\* user, items and total, added once under an identifier no stored order
\* has, the stored orders untouched; stored identifiers are pairwise distinct.
C10_ConcurrentOrdersIndependent ==
  /\ [](\A i, j \in DOMAIN orders : i # j => orders[i]._id # orders[j]._id)
  /\ [][\A r \in BagToSet(reqs) :
          (reqs' = reqs (-) SetToBag({r})) =>
            IF Alone(r).resp.status = 201
              THEN /\ Len(orders') = Len(orders) + 1
                   /\ \A k \in DOMAIN orders : orders'[k] = orders[k]
                   /\ SameOrder(LastOf(orders'), LastOf(Alone(r).orders))
                   /\ \A k \in DOMAIN orders : orders[k]._id # LastOf(orders')._id
              ELSE /\ Alone(r).resp.status = 400
                   /\ orders' = orders]_vars

\* two requests of different users are in flight at once, both looked up and
\* neither inserted, and both will be accepted
C10_Witness ==
  \E r1, r2 \in BagToSet(reqs) :
    /\ r1.order.user_id # r2.order.user_id
    /\ r1.order.items # <<>>
    /\ Alone(r1).resp.status = 201
    /\ Alone(r2).resp.status = 201

====
